---- MODULE Spec2Model ----
(***************************************************************************)
(* A model of the two per-frame animation cores of the christmas-tree      *)
(* scene:                                                                  *)
(*   - src/components/Ornaments.tsx: the dataset generator (useMemo) and   *)
(*     the per-frame instanced-transform update (useFrame / updateMesh);   *)
(*   - src/components/Experience.tsx: the per-frame camera orbit update.   *)
(*                                                                         *)
(* Numbers.  JavaScript numbers are modelled in fixed point, one unit      *)
(* being 0.001: lengths in millimetres of scene units, angles in           *)
(* milliradians, times in milliseconds, Math.random() draws in             *)
(* thousandths.  A product of two such numbers is rounded to the nearest   *)
(* unit (Mul), as a floating-point product is rounded to the nearest       *)
(* representable number.  Math.sin is Bhaskara's rational approximation    *)
(* (absolute error below 0.002), period TwoPi.                             *)
(*                                                                         *)
(* Library behaviour the source relies on (three.js, not part of the       *)
(* repository) is modelled at the call site that uses it:                  *)
(*   Vector3.lerp(v, a)      this += (v - this) * a, a not clamped;        *)
(*   InstancedMesh           a transform buffer, identity at creation;     *)
(*   instanceMatrix.needsUpdate = true   one dirty signal per assignment;  *)
(*   OrbitControls.update()  re-reads the camera position as spherical     *)
(*                           angles, clamps polar angle and distance,      *)
(*                           writes the position back.                     *)
(* Colours (setColorAt) and the unused rotationOffset are not modelled.    *)
(***************************************************************************)
EXTENDS Integers, Sequences, FiniteSets, TLC

VARIABLES
    \* ---- Ornaments ----
    count,        \* prop: requested number of instances
    mode,         \* prop: TreeMode
    genI,         \* loop variable i of the generator
    lastRnd,      \* the type draw of the latest generator iteration
    ballsData,    \* _balls / ballsData
    giftsData,    \* _gifts / giftsData
    lightsData,   \* _lights / lightsData
    refs,         \* group -> whether ref.current is a mesh (not null)
    matrix,       \* group -> the instance transforms of its buffer
    time,         \* state.clock.elapsedTime, kept modulo TwoPi
    frames,       \* number of Ornaments frames run (saturates at MaxFrames)
    lastFrame,    \* the latest Ornaments frame: its delta and mode, and the
                  \* refs and buffers it started from
    trace,        \* group -> buffer accesses of the latest Ornaments frame
    \* ---- Experience ----
    controlsRef,  \* whether controlsRef.current is set
    azimuth,      \* OrbitControls spherical theta (getAzimuthalAngle)
    polar,        \* OrbitControls spherical phi (getPolarAngle)
    radius,       \* distance camera - target (getDistance)
    camPos,       \* controls.object.position
    ctrlTarget,   \* controls.target
    updates,      \* whether the latest camera frame called controls.update()
    cframes,      \* number of camera frames run
    lastCam       \* inputs and intermediate values of the latest camera frame

ornVars == <<count, mode, genI, lastRnd, ballsData, giftsData, lightsData,
             refs, matrix, time, frames, lastFrame, trace>>
camVars == <<controlsRef, azimuth, polar, radius, camPos, ctrlTarget,
             updates, cframes, lastCam>>
vars == <<ornVars, camVars>>

-----------------------------------------------------------------------------
\* Bounds of the model.
MaxFrames == 3
MaxCount == 3
MaxCamFrames == 2

-----------------------------------------------------------------------------
\* Fixed-point arithmetic.

\* One unit is 1/Unit.
Unit == 10^3

Abs(a) == IF a < 0 THEN -a ELSE a

\* n / d rounded to the nearest integer (d > 0).
Round(n, d) == (2 * n + d) \div (2 * d)

\* The product of two fixed-point numbers.
Mul(a, b) == Round(a * b, Unit)

Clamp(v, lo, hi) == IF v < lo THEN lo ELSE IF v > hi THEN hi ELSE v

\* Math.PI
Pi == 3142
TwoPi == Pi * 2
HalfPi == Pi \div 2

\* Math.sin on 0..Pi (Bhaskara I): 16x(pi-x) / (5pi^2 - 4x(pi-x)).
SinHalf(x) ==
    LET p == x * (Pi - x)
    IN  Round(16 * p, (5 * Pi * Pi - 4 * p) \div Unit)

\* Math.sin
Sin(a) ==
    LET r == a % TwoPi
    IN  IF r <= Pi THEN SinHalf(r) ELSE -SinHalf(r - Pi)

\* Math.cos
Cos(a) == Sin(a + HalfPi)

\* Squares of lengths exceed 32 bits: a wide number <<h, l>> is h*10^6 + l.
WBase == 10^6
WSq(a) ==
    LET b == Abs(a)
        h == b \div Unit
        l == b % Unit
        r == 2 * Unit * h * l + l * l
    IN  <<h * h + r \div WBase, r % WBase>>
WAdd(p, q) ==
    LET l == p[2] + q[2]
    IN  <<p[1] + q[1] + l \div WBase, l % WBase>>
WLess(p, q) == p[1] < q[1] \/ (p[1] = q[1] /\ p[2] < q[2])
WLeq(p, q) == ~WLess(q, p)

\* Vector3.distanceToSquared
Dist2(p, q) == WAdd(WAdd(WSq(p[1] - q[1]), WSq(p[2] - q[2])), WSq(p[3] - q[3]))

\* a.distanceTo(b) < r
DistLess(p, q, r) == WLess(Dist2(p, q), WSq(r))

-----------------------------------------------------------------------------
\* Ornaments: the dataset generator.

FORMED == "FORMED"
CHAOS == "CHAOS"
Modes == {FORMED, CHAOS}
Groups == {"balls", "gifts", "lights"}

\* Outcomes of the spiral construction of targetPos for the Math.random()
\* triples (0, 0, 0) and (0.5, 0.25, 0.5).
TargetA == <<1276, 500, -4315>>
TargetB == <<2509, 2445, 3057>>

\* Outcomes of the spherical construction of chaosPos for the Math.random()
\* triples (0, 0, 0.5) and (0, 0.25, 0.5).
ChaosA == <<15000, 5000, 0>>
ChaosB == <<0, 20000, 0>>

\* The type of an instance from its draw rnd.
MutTypeOf(rnd) ==
    LET t1 == IF rnd >= 800 THEN "gift" ELSE "ball"
    IN  IF rnd >= 900 THEN "light" ELSE t1
TypeOf(rnd) ==
    LET t1 == IF rnd > 800 THEN "gift" ELSE "ball"
    IN  IF rnd > 900 THEN "light" ELSE t1

\* scale of an instance from its type and a draw u.
ScaleOf(type, u) == IF type = "light" THEN 150 ELSE 200 + Mul(u, 250)

\* speed of an instance from a draw u.
SpeedOf(u) == 500 + Mul(u, 1500)

\* The InstanceData record of iteration i (0-based); id stands for the
\* identity of the JavaScript object.
MakeData(i, draw) ==
    LET type == TypeOf(draw.rnd)
    IN  [id |-> i,
         chaosPos |-> draw.chs,
         targetPos |-> draw.tgt,
         type |-> type,
         scale |-> ScaleOf(type, draw.uScale),
         speed |-> SpeedOf(draw.uSpeed)]

\* The push at the end of an iteration, on acc = [balls, gifts, lights].
Push(acc, data) ==
    IF data.type = "ball" THEN [acc EXCEPT !.balls = Append(@, data)]
    ELSE IF data.type = "gift" THEN [acc EXCEPT !.gifts = Append(@, data)]
    ELSE [acc EXCEPT !.lights = Append(@, data)]

\* One iteration of the generator loop.
GenIter(acc, i, draw) == Push(acc, MakeData(i, draw))

EmptyAcc == [balls |-> <<>>, gifts |-> <<>>, lights |-> <<>>]

\* The whole loop for a sequence of draws (count = Len(draws)).
RECURSIVE GenLoop(_, _, _)
GenLoop(acc, i, draws) ==
    IF i >= Len(draws) THEN acc
    ELSE GenLoop(GenIter(acc, i, draws[i + 1]), i + 1, draws)
Generate(draws) == GenLoop(EmptyAcc, 0, draws)

Data(g) ==
    CASE g = "balls" -> ballsData
      [] g = "gifts" -> giftsData
      [] g = "lights" -> lightsData

-----------------------------------------------------------------------------
\* Ornaments: the per-frame update.

\* A transform of the buffer: position, rotation, scale.  A rotation is
\* either Euler angles (kind "euler") or the orientation lookAt produced
\* for the point <<x, y, z>> (kind "lookAt").
Identity ==
    [pos |-> <<0, 0, 0>>,
     rot |-> [kind |-> "euler", x |-> 0, y |-> 0, z |-> 0],
     scale |-> Unit]

\* An angle brought into (-Pi, Pi].
WrapAngle(a) ==
    LET r == a % TwoPi
    IN  IF r > Pi THEN r - TwoPi ELSE r

\* The XYZ Euler angles three.js reads back from a rotation: y in
\* [-Pi/2, Pi/2].
EulerCanon(x, y, z) ==
    LET b == WrapAngle(y)
    IN  IF b > HalfPi
        THEN [kind |-> "euler", x |-> WrapAngle(x + Pi), y |-> Pi - b,
              z |-> WrapAngle(z + Pi)]
        ELSE IF b < -HalfPi
        THEN [kind |-> "euler", x |-> WrapAngle(x + Pi), y |-> -Pi - b,
              z |-> WrapAngle(z + Pi)]
        ELSE [kind |-> "euler", x |-> WrapAngle(x), y |-> b, z |-> WrapAngle(z)]

\* One axis of Vector3.lerp(v, alpha): this.x += (v.x - this.x) * alpha.
MutLerpAxis(c, d, alpha) == c + Mul(c - d, alpha)
LerpAxis(c, d, alpha) == c + Mul(d - c, alpha)

\* dummy.position.lerp(dest, step)
Lerp(p, dest, alpha) ==
    <<LerpAxis(p[1], dest[1], alpha),
      LerpAxis(p[2], dest[2], alpha),
      LerpAxis(p[3], dest[3], alpha)>>

\* The distance to targetPos below which the wobble applies.
NearRadius == 500

\* The destination of an instance.
Dest(d, isFormed) == IF isFormed THEN d.targetPos ELSE d.chaosPos

\* The wobble added to position.y (0 when the wobble does not apply).
Wobble(d, lerped, env) ==
    IF env.isFormed /\ DistLess(lerped, d.targetPos, NearRadius)
    THEN Mul(Sin(env.time * 2 + d.chaosPos[1]), 2)
    ELSE 0

\* The rotation written for an instance: a gift turns about x and y, the
\* others look at the point (0, position.y, 0).
Rotation(d, cur, pos, env) ==
    IF d.type = "gift"
    THEN EulerCanon(cur.rot.x + Mul(env.delta, 500),
                    cur.rot.y + Mul(env.delta, 200),
                    cur.rot.z)
    ELSE [kind |-> "lookAt", x |-> 0, y |-> pos[2], z |-> 0]

\* The scale written for an instance.
Scale(d, env) ==
    IF d.type = "light"
    THEN Mul(d.scale, Unit + Mul(Sin(env.time * 5 + d.chaosPos[2]), 300))
    ELSE d.scale

Event(op, i, pos) == [op |-> op, i |-> i, pos |-> pos]

\* The body of data.forEach((d, i) => ...), on st = [m, log, needsUpdate];
\* k is i + 1.
Body(d, k, st, env) ==
    LET cur == st.m[k]
        step == Mul(env.delta, d.speed)
        lerped == Lerp(cur.pos, Dest(d, env.isFormed), step)
        pos == [lerped EXCEPT ![2] = @ + Wobble(d, lerped, env)]
        new == [pos |-> pos,
                rot |-> Rotation(d, cur, pos, env),
                scale |-> Scale(d, env)]
    IN  [m |-> [st.m EXCEPT ![k] = new],
         log |-> st.log \o <<Event("get", k - 1, cur.pos),
                             Event("lerp", k - 1, lerped),
                             Event("set", k - 1, pos)>>,
         needsUpdate |-> TRUE]

RECURSIVE ForEach(_, _, _, _)
ForEach(data, k, st, env) ==
    IF k > Len(data) THEN st
    ELSE ForEach(data, k + 1, Body(data[k], k, st, env), env)

DirtyEvent == Event("dirty", -1, <<0, 0, 0>>)

\* After the loop: if (needsUpdate) ref.current.instanceMatrix.needsUpdate = true.
MutMarkDirty(st) == [st EXCEPT !.log = Append(@, DirtyEvent)]
MarkDirty(st) ==
    IF st.needsUpdate THEN [st EXCEPT !.log = Append(@, DirtyEvent)] ELSE st

\* if (!ref.current) return;
MutSkipped(attached) == FALSE
Skipped(attached) == ~attached

\* updateMesh(ref, data) on the buffer m.
UpdateMesh(attached, data, m, env) ==
    LET st0 == [m |-> m, log |-> <<>>, needsUpdate |-> FALSE]
    IN  IF Skipped(attached) THEN st0
        ELSE MarkDirty(ForEach(data, 1, st0, env))

\* The useFrame callback of Ornaments.
Frame(delta) ==
    /\ genI = count
    /\ \E t \in {(time + delta) % TwoPi} :
        \E res \in {[g \in Groups |->
                        UpdateMesh(refs[g], Data(g), matrix[g],
                                   [isFormed |-> (mode = FORMED), delta |-> delta,
                                    time |-> t])]} :
            /\ time' = t
            /\ matrix' = [g \in Groups |-> res[g].m]
            /\ trace' = [g \in Groups |-> res[g].log]
    /\ frames' = IF frames < MaxFrames THEN frames + 1 ELSE frames
    /\ lastFrame' = [ran |-> TRUE, delta |-> delta, mode |-> mode,
                     refs |-> refs, before |-> matrix]
    /\ UNCHANGED <<count, mode, genI, lastRnd, ballsData, giftsData, lightsData, refs>>
    /\ UNCHANGED camVars

\* The parent re-renders Ornaments with another mode.
SetMode(m) ==
    /\ genI = count
    /\ m # mode
    /\ mode' = m
    /\ UNCHANGED <<count, genI, lastRnd, ballsData, giftsData, lightsData,
                   refs, matrix, time, frames, lastFrame, trace>>
    /\ UNCHANGED camVars

\* React attaches the mesh of group g to its ref.
Attach(g) ==
    /\ genI = count
    /\ ~refs[g]
    /\ refs' = [refs EXCEPT ![g] = TRUE]
    /\ UNCHANGED <<count, mode, genI, lastRnd, ballsData, giftsData, lightsData,
                   matrix, time, frames, lastFrame, trace>>
    /\ UNCHANGED camVars

-----------------------------------------------------------------------------
\* Experience: the per-frame camera update.

\* Math.PI / 4 and Math.PI / 1.8
MinPolar == Round(Pi, 4)
MaxPolar == Round(Pi * 10, 18)

\* minDistance, maxDistance of <OrbitControls>
MinDistance == 10 * Unit
MaxDistance == 30 * Unit

\* Tree center height: targetY
TargetY == 4 * Unit

\* if (controlsRef.current && handPosition.detected)
MutShouldUpdate(attached, detected) == attached
ShouldUpdate(attached, detected) == attached /\ detected

\* targetAzimuth = (handPosition.x - 0.5) * Math.PI * 3
TargetAzimuth(x) == Mul(x - 500, Pi) * 3

\* adjustedY, clampedY, targetPolar
TargetPolar(y) ==
    LET adjustedY == (y - 200) * 2
        clampedY == Clamp(adjustedY, 0, Unit)
    IN  MinPolar + Mul(clampedY, MaxPolar - MinPolar)

\* The two wrapping ifs on azimuthDiff.
MutWrapDiff(diff) == diff
WrapDiff(diff) ==
    LET d1 == IF diff > Pi THEN diff - TwoPi ELSE diff
    IN  IF d1 < -Pi THEN d1 + TwoPi ELSE d1

\* lerpSpeed
LerpSpeed == 8

\* The Cartesian point of spherical coordinates around the point c.
FromSpherical(r, phi, theta, c) ==
    <<c[1] + Mul(Mul(r, Sin(phi)), Sin(theta)),
      c[2] + Mul(r, Cos(phi)),
      c[3] + Mul(Mul(r, Sin(phi)), Cos(theta))>>

\* The spherical angles OrbitControls.update() reads back (Spherical
\* .setFromVector3) from a position placed at angles (phi, theta): phi in
\* [0, Pi], theta in (-Pi, Pi].
ReadBack(phi, theta) ==
    LET p == phi % TwoPi
    IN  IF p <= Pi THEN [phi |-> p, theta |-> WrapAngle(theta)]
        ELSE [phi |-> TwoPi - p, theta |-> WrapAngle(theta + Pi)]

\* The body of the camera callback for the sample hand and the frame delta,
\* from the angles and distance OrbitControls holds: every local of the
\* callback, and the pose controls.update() leaves.
CamUpdate(az, pol, rad, hand, delta) ==
    LET targetAzimuth == TargetAzimuth(hand.x)
        targetPolar == TargetPolar(hand.y)
        rawDiff == targetAzimuth - az
        azimuthDiff == WrapDiff(rawDiff)
        newAzimuth == az + Mul(azimuthDiff, delta) * LerpSpeed
        newPolar == pol + Mul(targetPolar - pol, delta) * LerpSpeed
        target == <<0, TargetY, 0>>
        set == FromSpherical(rad, newPolar, newAzimuth, target)
        back == ReadBack(newPolar, newAzimuth)
        phi == Clamp(back.phi, MinPolar, MaxPolar)
        r == Clamp(rad, MinDistance, MaxDistance)
    IN  [targetAzimuth |-> targetAzimuth, targetPolar |-> targetPolar,
         rawDiff |-> rawDiff, azimuthDiff |-> azimuthDiff,
         newAzimuth |-> newAzimuth, newPolar |-> newPolar, set |-> set,
         azimuth |-> back.theta, polar |-> phi, radius |-> r,
         target |-> target,
         position |-> FromSpherical(r, phi, back.theta, target)]

NoHand == [x |-> 0, y |-> 0, detected |-> FALSE]

\* lastCam when the body of the callback did not run.
CamIdleRecord ==
    [ran |-> FALSE, hand |-> NoHand, delta |-> 0, az |-> 0, pol |-> 0, rad |-> 0,
     pos |-> <<0, 0, 0>>, tgt |-> <<0, 0, 0>>,
     c |-> CamUpdate(0, MinPolar, MinDistance, NoHand, 0)]

\* The useFrame callback of Experience.
CameraFrame(hand, delta) ==
    /\ cframes < MaxCamFrames
    /\ cframes' = cframes + 1
    /\ IF ShouldUpdate(controlsRef, hand.detected)
       THEN \E c \in {CamUpdate(azimuth, polar, radius, hand, delta)} :
                /\ azimuth' = c.azimuth
                /\ polar' = c.polar
                /\ radius' = c.radius
                /\ camPos' = c.position
                /\ ctrlTarget' = c.target
                /\ updates' = TRUE
                /\ lastCam' = [ran |-> TRUE, hand |-> hand, delta |-> delta,
                               az |-> azimuth, pol |-> polar, rad |-> radius,
                               pos |-> camPos, tgt |-> ctrlTarget, c |-> c]
       ELSE /\ updates' = FALSE
            /\ lastCam' = [CamIdleRecord EXCEPT
                                !.hand = [NoHand EXCEPT !.detected = hand.detected]]
            /\ UNCHANGED <<azimuth, polar, radius, camPos, ctrlTarget>>
    /\ UNCHANGED controlsRef
    /\ UNCHANGED ornVars

\* React attaches the OrbitControls instance to controlsRef.
AttachControls ==
    /\ ~controlsRef
    /\ controlsRef' = TRUE
    /\ UNCHANGED <<azimuth, polar, radius, camPos, ctrlTarget, updates, cframes, lastCam>>
    /\ UNCHANGED ornVars

-----------------------------------------------------------------------------
\* Inputs.

\* Frame deltas of the Ornaments callback, in ms.
Deltas == {16, 500, 1200}

\* Type draws of the generator.
RndSamples == {0, 800, 801, 900, 901, 999}

\* The draws of one generator iteration.
Draw(rnd, tgt, chs, uSpeed) ==
    [rnd |-> rnd, tgt |-> tgt, chs |-> chs, uScale |-> 500, uSpeed |-> uSpeed]

GenDraws ==
    {Draw(r, TargetA, ChaosA, u) : r \in RndSamples, u \in {0, 999}}

\* Draw sequences of the datasets the frames run on.
FrameDraws ==
    {<<Draw(0, TargetA, ChaosA, 999),
       Draw(850, TargetB, ChaosB, 0),
       Draw(950, TargetA, ChaosB, 333)>>,
     <<Draw(800, TargetB, ChaosA, 333),
       Draw(500, TargetA, ChaosB, 999)>>}

\* Camera inputs: hand samples and frame deltas in ms.
HandXs == {0, 500, 832, 1000, 1500}
HandYs == {-300, 450, 1000}
CamDeltas == {16, 250}
Hands == [x : HandXs, y : HandYs, detected : BOOLEAN]

InitAzimuths == {0, Pi, 10 - Pi}
InitPolars == {MinPolar, 1300}

-----------------------------------------------------------------------------
\* Specifications.

Buffers(acc) ==
    [g \in Groups |->
        [k \in 1..Len(CASE g = "balls" -> acc.balls
                        [] g = "gifts" -> acc.gifts
                        [] g = "lights" -> acc.lights) |-> Identity]]

NoFrame(m, buf) ==
    [ran |-> FALSE, delta |-> 0, mode |-> m,
     refs |-> [g \in Groups |-> FALSE], before |-> buf]

\* The camera as OrbitControls holds it before any frame.
CamInit ==
    /\ controlsRef = FALSE
    /\ azimuth \in InitAzimuths
    /\ polar \in InitPolars
    /\ radius = 20 * Unit
    /\ ctrlTarget = <<0, 0, 0>>
    /\ camPos = FromSpherical(radius, polar, azimuth, ctrlTarget)
    /\ updates = FALSE
    /\ cframes = 0
    /\ lastCam = CamIdleRecord

CamFixed ==
    /\ controlsRef = FALSE
    /\ azimuth = 0
    /\ polar = MinPolar
    /\ radius = 20 * Unit
    /\ ctrlTarget = <<0, 0, 0>>
    /\ camPos = FromSpherical(radius, polar, azimuth, ctrlTarget)
    /\ updates = FALSE
    /\ cframes = 0
    /\ lastCam = CamIdleRecord

\* Ornaments after its first render: the dataset is generated, no mesh is
\* attached yet, the clock is at 0.
OrnState(acc, n, m) ==
    /\ count = n
    /\ mode = m
    /\ genI = n
    /\ lastRnd = 0
    /\ ballsData = acc.balls
    /\ giftsData = acc.gifts
    /\ lightsData = acc.lights
    /\ refs = [g \in Groups |-> FALSE]
    /\ matrix = Buffers(acc)
    /\ time = 0
    /\ frames = 0
    /\ lastFrame = NoFrame(m, Buffers(acc))
    /\ trace = [g \in Groups |-> <<>>]

Init ==
    /\ \E draws \in FrameDraws, m \in Modes : OrnState(Generate(draws), Len(draws), m)
    /\ CamFixed

\* Frames of the Ornaments callback, up to the bound.
FrameStep(delta) == frames < MaxFrames /\ Frame(delta)

Next ==
    \/ \E delta \in Deltas : FrameStep(delta)
    \/ \E m \in Modes : SetMode(m)
    \/ \E g \in Groups : Attach(g)

Spec == Init /\ [][Next]_vars

\* The generator loop, iteration by iteration.
GenStep ==
    /\ genI < count
    /\ \E draw \in GenDraws :
        LET acc == GenIter([balls |-> ballsData, gifts |-> giftsData,
                            lights |-> lightsData], genI, draw)
        IN  /\ ballsData' = acc.balls
            /\ giftsData' = acc.gifts
            /\ lightsData' = acc.lights
            /\ lastRnd' = draw.rnd
    /\ genI' = genI + 1
    /\ UNCHANGED <<count, mode, refs, matrix, time, frames, lastFrame, trace>>
    /\ UNCHANGED camVars

GenInit ==
    /\ count \in 0..MaxCount
    /\ mode = CHAOS
    /\ genI = 0
    /\ lastRnd = 0
    /\ ballsData = <<>>
    /\ giftsData = <<>>
    /\ lightsData = <<>>
    /\ refs = [g \in Groups |-> FALSE]
    /\ matrix = Buffers(EmptyAcc)
    /\ time = 0
    /\ frames = 0
    /\ lastFrame = NoFrame(CHAOS, Buffers(EmptyAcc))
    /\ trace = [g \in Groups |-> <<>>]
    /\ CamFixed

GenSpec == GenInit /\ [][GenStep]_vars

CamNext ==
    \/ \E hand \in Hands, delta \in CamDeltas : CameraFrame(hand, delta)
    \/ AttachControls

CameraInit == OrnState(EmptyAcc, 0, CHAOS) /\ CamInit

CameraSpec == CameraInit /\ [][CamNext]_vars

-----------------------------------------------------------------------------
\* Properties of the Ornaments frame.

Range(seq) == {seq[k] : k \in 1..Len(seq)}

\* The instances (1-based) the latest frame processed in group g.
Processed(g) ==
    IF lastFrame.ran /\ lastFrame.refs[g] THEN 1..Len(Data(g)) ELSE {}

\* delta * d.speed and the active destination in the latest frame.
StepOf(d) == Mul(lastFrame.delta, d.speed)
DestOf(d) == IF lastFrame.mode = FORMED THEN d.targetPos ELSE d.chaosPos

\* The position read at the start of the latest frame, the position after
\* the interpolation step, and the position written back.
ReadPos(g, k) == lastFrame.before[g][k].pos
LerpedPos(g, k) ==
    (CHOOSE e \in Range(trace[g]) : e.op = "lerp" /\ e.i = k - 1).pos
WrittenPos(g, k) == matrix[g][k].pos

\* C1 as stated: whenever delta * speed <= 1, the position written back is
\* no farther from the active destination than the position read at the
\* start of the frame.
C1_DistanceNonIncreasing ==
    \A g \in Groups : \A k \in Processed(g) :
        LET d == Data(g)[k]
        IN  StepOf(d) <= Unit =>
                WLeq(Dist2(WrittenPos(g, k), DestOf(d)),
                     Dist2(ReadPos(g, k), DestOf(d)))

\* C1 amended: whenever delta * speed <= 1, the interpolated position is no
\* farther from the active destination than the position read, and the
\* position written back is the interpolated position displaced along y by
\* at most 0.002, displaced at all only when the mode is FORMED and the
\* interpolated position is within 0.5 of targetPos.
C1_LerpNonIncreasingUpToWobble ==
    \A g \in Groups : \A k \in Processed(g) :
        LET d == Data(g)[k]
            lerped == LerpedPos(g, k)
            w == WrittenPos(g, k)[2] - lerped[2]
        IN  StepOf(d) <= Unit =>
                /\ WLeq(Dist2(lerped, DestOf(d)), Dist2(ReadPos(g, k), DestOf(d)))
                /\ WrittenPos(g, k)[1] = lerped[1]
                /\ WrittenPos(g, k)[3] = lerped[3]
                /\ Abs(w) <= 2
                /\ w # 0 => /\ lastFrame.mode = FORMED
                            /\ DistLess(lerped, d.targetPos, NearRadius)

\* A frame with delta * speed <= 1 moved an instance strictly closer to its
\* destination, and wobbled another write (or the same) off the interpolated
\* position.
C1_Witness ==
    /\ \E g \in Groups : \E k \in Processed(g) :
          /\ StepOf(Data(g)[k]) <= Unit
          /\ WrittenPos(g, k) # LerpedPos(g, k)
    /\ \E g \in Groups : \E k \in Processed(g) :
          /\ StepOf(Data(g)[k]) <= Unit
          /\ WLess(Dist2(WrittenPos(g, k), DestOf(Data(g)[k])),
                   Dist2(ReadPos(g, k), DestOf(Data(g)[k])))

\* C2 as stated: the interpolation step is
\* current + (destination - current) * clamp(delta * speed, 0, 1), so a
\* frame with delta * speed > 1 lands exactly on the destination.
C2_ClampedLerp ==
    \A g \in Groups : \A k \in Processed(g) :
        LET d == Data(g)[k]
            a == Clamp(StepOf(d), 0, Unit)
            cur == ReadPos(g, k)
            dest == DestOf(d)
        IN  LerpedPos(g, k) = <<cur[1] + Mul(dest[1] - cur[1], a),
                                cur[2] + Mul(dest[2] - cur[2], a),
                                cur[3] + Mul(dest[3] - cur[3], a)>>

\* The events of kind op in the trace of group g.
Events(g, op) == {j \in 1..Len(trace[g]) : trace[g][j].op = op}

\* C7: in a frame, a group whose handle is missing gets no transform
\* written and no dirty signal, and every group whose handle is present has
\* every instance written and, when it has instances, its dirty signal.
C7_MissingHandleSkipsOnlyThatGroup ==
    lastFrame.ran =>
        \A g \in Groups :
            IF lastFrame.refs[g]
            THEN /\ \A k \in 1..Len(Data(g)) :
                        \E j \in Events(g, "set") : trace[g][j].i = k - 1
                 /\ Len(Data(g)) > 0 => Events(g, "dirty") # {}
            ELSE /\ trace[g] = <<>>
                 /\ matrix[g] = lastFrame.before[g]

\* A frame ran while the gifts handle was missing and the two other groups,
\* each with an instance, were attached and were written.
C7_Witness ==
    /\ lastFrame.ran
    /\ ~lastFrame.refs["gifts"] /\ Len(giftsData) > 0
    /\ lastFrame.refs["balls"] /\ Len(ballsData) > 0
    /\ lastFrame.refs["lights"] /\ Len(lightsData) > 0
    /\ matrix["balls"] # lastFrame.before["balls"]
    /\ matrix["lights"] # lastFrame.before["lights"]

\* C10: in a frame, a group with a handle and n > 0 instances has exactly
\* the accesses get 0, set 0, ..., get n-1, set n-1 in this order and then
\* one dirty signal; a group with no instance has no access and no dirty
\* signal.
C10_WritesThenOneDirty ==
    lastFrame.ran =>
        \A g \in Groups :
            LET n == Len(Data(g))
                acc == SelectSeq(trace[g], LAMBDA e : e.op # "lerp")
            IN  IF lastFrame.refs[g] /\ n > 0
                THEN /\ Len(acc) = 2 * n + 1
                     /\ \A i \in 0..(n - 1) :
                            /\ acc[2 * i + 1].op = "get" /\ acc[2 * i + 1].i = i
                            /\ acc[2 * i + 2].op = "set" /\ acc[2 * i + 2].i = i
                            /\ acc[2 * i + 2].pos = matrix[g][i + 1].pos
                     /\ acc[2 * n + 1].op = "dirty"
                ELSE n = 0 => trace[g] = <<>>

\* A frame ran with all handles present on a dataset in which one group has
\* two instances and another has none.
C10_Witness ==
    /\ lastFrame.ran
    /\ \A g \in Groups : lastFrame.refs[g]
    /\ Len(ballsData) = 2 /\ Len(lightsData) = 0
    /\ Len(trace["balls"]) > 0

-----------------------------------------------------------------------------
\* Properties of the generator.

\* The groups holding the record created by iteration i.
GroupsOf(i) == {g \in Groups : \E k \in 1..Len(Data(g)) : Data(g)[k].id = i}

\* C9: after genI iterations there are exactly genI records, each in exactly
\* one group, every group holds only records of its type, and the record of
\* the latest iteration is in the group of its draw: balls for a draw
\* <= 0.8, gifts for a draw in (0.8, 0.9], lights for a draw > 0.9.
C9_Partition ==
    /\ Len(ballsData) + Len(giftsData) + Len(lightsData) = genI
    /\ \A i \in 0..(genI - 1) : Cardinality(GroupsOf(i)) = 1
    /\ \A g \in Groups : \A k, l \in 1..Len(Data(g)) :
            Data(g)[k].id = Data(g)[l].id => k = l
    /\ \A k \in 1..Len(ballsData) : ballsData[k].type = "ball"
    /\ \A k \in 1..Len(giftsData) : giftsData[k].type = "gift"
    /\ \A k \in 1..Len(lightsData) : lightsData[k].type = "light"
    /\ genI > 0 =>
            GroupsOf(genI - 1) =
                IF lastRnd <= 800 THEN {"balls"}
                ELSE IF lastRnd <= 900 THEN {"gifts"}
                ELSE {"lights"}

\* The generator finished a dataset of three records, one per group, the
\* last one drawn exactly at the threshold 0.9.
C9_Witness ==
    /\ genI = count /\ count = 3
    /\ Len(ballsData) = 1 /\ Len(giftsData) = 1 /\ Len(lightsData) = 1
    /\ lastRnd = 900

-----------------------------------------------------------------------------
\* Convergence of the Ornaments frames.

\* A dataset of one ball of speed 1.273, the mode held at FORMED, and a
\* frame delivered every 1.571 s for ever: delta * speed = 2.
LiveDraws == {<<Draw(0, TargetA, ChaosA, 515)>>}
LiveDeltas == {1571}

LiveInit ==
    /\ \E draws \in LiveDraws : OrnState(Generate(draws), Len(draws), FORMED)
    /\ CamFixed

LiveFrame == \E delta \in LiveDeltas : Frame(delta)

LiveNext ==
    \/ LiveFrame
    \/ \E g \in Groups : Attach(g)

\* The host loop keeps calling the frame callback, and React attaches every
\* mesh.
LiveSpec ==
    /\ LiveInit
    /\ [][LiveNext]_vars
    /\ WF_vars(LiveFrame)
    /\ \A g \in Groups : WF_vars(Attach(g))

\* Every instance is within NearRadius of its targetPos.
AllNearTarget ==
    \A g \in Groups :
        /\ refs[g]
        /\ \A k \in 1..Len(Data(g)) :
                DistLess(matrix[g][k].pos, Data(g)[k].targetPos, NearRadius)

\* C3 as stated: if the mode is FORMED from some point on and frames keep
\* coming, every instance is eventually within a small distance of its
\* targetPos and stays there.
C3_EventuallyFormed == <>[](mode = FORMED) => <>[]AllNearTarget

-----------------------------------------------------------------------------
\* Properties of the camera frame.

\* C4: a camera frame whose sample is not detected leaves the camera
\* position, the controls target, the angles and the distance as they were,
\* and does not call controls.update().
C4_UndetectedFrameFreezesCamera ==
    [][(cframes' = cframes + 1 /\ ~lastCam'.hand.detected) =>
            /\ UNCHANGED <<azimuth, polar, radius, camPos, ctrlTarget>>
            /\ ~updates']_vars

\* A frame with an undetected sample ran after the controls were attached
\* and after a detected frame had moved the camera.
C4_Witness ==
    /\ controlsRef
    /\ cframes = 2
    /\ ~lastCam.hand.detected
    /\ ~updates
    /\ ctrlTarget = <<0, TargetY, 0>>

\* C5 as stated: the polar angle used to place the camera is within
\* [PI/4, PI/1.8] in every detected frame.
C5_NewPolarInRange ==
    lastCam.ran =>
        /\ lastCam.c.newPolar >= MinPolar
        /\ lastCam.c.newPolar <= MaxPolar

XInRange(h) == h.x >= 0 /\ h.x <= Unit
YInRange(h) == h.y >= 0 /\ h.y <= Unit

\* C6 as stated: for hand x in [0, 1] the azimuth difference that is scaled
\* lies in (-PI, PI].
C6_DiffInHalfOpenInterval ==
    (lastCam.ran /\ XInRange(lastCam.hand)) =>
        /\ lastCam.c.azimuthDiff > -Pi
        /\ lastCam.c.azimuthDiff <= Pi

\* C6 amended: for hand x in [0, 1] the azimuth difference that is scaled
\* lies in [-PI, PI] and differs from target - current by a whole number of
\* turns, and the new azimuth is current + difference * delta * lerpSpeed;
\* so when target - current is between PI and 2 PI the azimuth does not
\* increase (it moves towards the -PI / PI boundary), and symmetrically.
C6_DiffWithinHalfTurn ==
    (lastCam.ran /\ XInRange(lastCam.hand)) =>
        LET c == lastCam.c
        IN  /\ c.azimuthDiff >= -Pi
            /\ c.azimuthDiff <= Pi
            /\ (c.azimuthDiff - c.rawDiff) % TwoPi = 0
            /\ c.rawDiff = c.targetAzimuth - lastCam.az
            /\ c.newAzimuth = lastCam.az + Mul(c.azimuthDiff, lastCam.delta) * LerpSpeed
            /\ (c.rawDiff > Pi /\ c.rawDiff < TwoPi) =>
                    (c.azimuthDiff < 0 /\ c.newAzimuth <= lastCam.az)
            /\ (c.rawDiff < -Pi /\ c.rawDiff > -TwoPi) =>
                    (c.azimuthDiff > 0 /\ c.newAzimuth >= lastCam.az)

\* A detected frame with the current azimuth at -PI + 0.01 and the target
\* just below PI: the new azimuth is below -PI, across the boundary.
C6_Witness ==
    /\ lastCam.ran
    /\ lastCam.az = 10 - Pi
    /\ lastCam.c.targetAzimuth > Pi - 20
    /\ lastCam.c.targetAzimuth < Pi
    /\ lastCam.c.newAzimuth < -Pi

\* The sample of [0,1] x [0,1] nearest to h.
NearestInRange(h) == [h EXCEPT !.x = Clamp(h.x, 0, Unit), !.y = Clamp(h.y, 0, Unit)]

\* C8 as stated: for a detected sample with x or y outside [0, 1] the target
\* azimuth stays within [-1.5 PI, 1.5 PI], the target polar angle within
\* [PI/4, PI/1.8], and the camera ends where the nearest in-range sample
\* would have put it, or where it was.
C8_OutOfRangeClampedOrIgnored ==
    (lastCam.ran /\ ~(XInRange(lastCam.hand) /\ YInRange(lastCam.hand))) =>
        LET c == lastCam.c
            n == CamUpdate(lastCam.az, lastCam.pol, lastCam.rad,
                           NearestInRange(lastCam.hand), lastCam.delta)
        IN  /\ c.targetAzimuth >= -((3 * Pi) \div 2)
            /\ c.targetAzimuth <= (3 * Pi) \div 2
            /\ c.targetPolar >= MinPolar
            /\ c.targetPolar <= MaxPolar
            /\ \/ /\ azimuth = n.azimuth
                  /\ polar = n.polar
                  /\ camPos = n.position
               \/ /\ azimuth = lastCam.az
                  /\ polar = lastCam.pol
                  /\ camPos = lastCam.pos

====
